---- MODULE Spec2Model ----
(***************************************************************************)
(* cultionet, src/cultionet/data/create.py: the training-sample builder.   *)
(*                                                                         *)
(* Part I models create_dataset, the loop over the grid cells: clipping    *)
(* the boundary polygons to a cell (with the topology repair), the         *)
(* multi-grid accounting (merged_grids), the size check, the persistence   *)
(* check (is_grid_processed) and the augmentation fan-out.                 *)
(*                                                                         *)
(* Geometry is one-dimensional: the grid is a row of NCells cells of       *)
(* CellWidth units, cell c spanning [CellWidth*(c-1), CellWidth*c].  A     *)
(* boundary polygon covers the cells lo..hi and lies strictly inside the   *)
(* outer edges of lo and hi (polygons are in general position: no polygon  *)
(* edge lies on a grid line).  Bounding boxes, clipping and the spatial    *)
(* index are computed on these coordinates.                                *)
(***************************************************************************)
EXTENDS Integers, Sequences, FiniteSets, TLC

\* ------------------------------------------------------------- bounds
NCells == 3
MaxPolys == 2
MaxTransforms == 2
MaxRuns == 2
CellWidth == 4

\* create_dataset(..., n_ts = 2, ...)
n_ts == 2

\* create_dataset(..., group_id, ...)
group_id == "g_2020"

Cells == 1..NCells

\* df_edges rows: a polygon over the cells lo..hi.  topo tells how gpd.clip
\* treats it: "valid" clips; "fixable" raises until buffer(0) repairs it;
\* "broken" raises also after buffer(0).  Every polygon is a field
\* (class # 0).
Polygons == {p \in [lo : Cells, hi : Cells, topo : {"valid", "fixable", "broken"}] : p.lo <= p.hi}

\* the transforms the caller may list; the 'ts-' ones are temporal
AugNames == {"fliplr", "ts-warp"}

\* aug.startswith('ts-')
startswith_ts(aug) == aug \in {"ts-warp"}

TransformLists == UNION {[1..n -> AugNames] : n \in 0..MaxTransforms}

Orders == {s \in [1..NCells -> Cells] : \A i, j \in 1..NCells : i # j => s[i] # s[j]}

Min(S) == CHOOSE x \in S : \A y \in S : x <= y
Max(S) == CHOOSE x \in S : \A y \in S : x >= y

VARIABLES
    df_grids,       \* input: the grid cells in row order (row -> grid id)
    polys,          \* input: the rows of df_edges
    small,          \* input: the cells whose sampled window is under 5x5
    transforms,     \* input: the list of augmentations
    run,            \* which call of create_dataset this is
    pc,             \* position in the loop body
    idx,            \* the row of df_grids being processed
    merged_grids,   \* create_dataset's merged_grids list
    df_edges,       \* "orig" or "repaired": what the name df_edges is bound to
    grid_edges,     \* the clipped boundaries of the current cell
    int_idx,        \* the grids intersecting grid_edges' bounds
    todo,           \* the train ids still to augment and save for this cell
    store,          \* process_path: the train ids that have a record
    outcome,        \* history: how each cell's iteration ended in this run
    sample,         \* history: what create_image_vars returned for the cell
    generated,      \* history: cells for which create_image_vars ran
    clips,          \* history: every gpd.clip call of this run
    saved,          \* history: every torch.save of this run, in order
    overwritten,    \* history: ids saved when a record already existed
    failed,         \* history: the train id whose augment/save raised
    prev_ok,        \* history: the previous run ended without an error
    apc,            \* Part II: which array function has been applied
    labels_in,      \* Part II: history, the label array as passed in
    labels_array,   \* Part II: the label array (argument, then result)
    edges,          \* Part II: the edges array of make_crops_uniform
    data_type,      \* Part II: 'boundaries' or a multi-class target
    segments,       \* Part II: the segment map returned
    train_type,     \* Part II: the geometry type of the boundaries
    celly,          \* Part II: src_ts.gw.celly, the cell size
    bdist_raw,      \* Part II: bdist as create_boundary_distances returns it
    bdist,          \* Part II: the boundary-distance field returned
    edge_compare_sum, \* Part II: what focal_compare returns
    thin_input,     \* Part II: the mask create_image_vars passes to sk_thin
    lc_array,       \* Part II: the land-cover raster over the sample
    xvars,          \* Part II: the image stack, a sequence of bands
    xvars_in,       \* Part II: history, the stack create_image_vars returned
    labels_prev     \* Part II: history, the label array before the last step

grid_vars == <<df_grids, polys, small, transforms, run, pc, idx, merged_grids, df_edges,
               grid_edges, int_idx, todo, store, outcome, sample, generated, clips,
               saved, overwritten, failed, prev_ok>>

path_vars == <<edge_compare_sum, thin_input, lc_array, xvars, xvars_in, labels_prev>>

array_vars == <<apc, labels_in, labels_array, edges, data_type, segments, train_type, celly,
                bdist_raw, bdist, path_vars>>

vars == <<grid_vars, array_vars>>

inputs == <<df_grids, polys, small, transforms>>

\* ------------------------------------------------------------ geometry

\* row.geometry bounds: left, right
cell_bounds(c) == [l |-> CellWidth * (c - 1), r |-> CellWidth * c]

\* a polygon's extent
poly_bounds(p) == [l |-> CellWidth * (p.lo - 1) + 1, r |-> CellWidth * p.hi - 1]

\* the bounds of a set of cells (df_grids.iloc[int_idx].geometry)
mask_bounds(S) == [l |-> CellWidth * (Min(S) - 1), r |-> CellWidth * Max(S)]

\* gpd.clip looks at the rows of df_edges whose geometry intersects the mask
candidates(S) ==
    {p \in polys : \E c \in S : poly_bounds(p).l < cell_bounds(c).r
                             /\ poly_bounds(p).r > cell_bounds(c).l}

\* gpd.clip raises on a candidate with a topology error
clip_raises(df, S) ==
    \E p \in candidates(S) : IF df = "orig" THEN p.topo # "valid" ELSE p.topo = "broken"

\* gpd.clip(df_edges, mask): the pieces of the candidates inside the mask
clip(S) ==
    [src |-> "edges",
     pieces |-> {[l |-> IF poly_bounds(p).l > mask_bounds(S).l
                        THEN poly_bounds(p).l ELSE mask_bounds(S).l,
                  r |-> IF poly_bounds(p).r < mask_bounds(S).r
                        THEN poly_bounds(p).r ELSE mask_bounds(S).r] : p \in candidates(S)}]

\* grid_edges = df_grids.copy(); grid_edges.loc[:, 'class'] = 0
grids_as_edges == [src |-> "grids", pieces |-> {cell_bounds(c) : c \in Cells}]

\* grid_edges.total_bounds
total_bounds(ge) ==
    [l |-> Min({q.l : q \in ge.pieces}), r |-> Max({q.r : q \in ge.pieces})]

\* sindex.intersection(bounds): the grids whose box meets the bounds, touching included
sindex_intersection(b) ==
    {c \in Cells : cell_bounds(c).l <= b.r /\ cell_bounds(c).r >= b.l}

\* nonzero_mask.any()
nonzero_any(ge) == ge.src = "edges" /\ ge.pieces # {}

\* --------------------------------------------------------- persistence

\* f'{i:03d}'
fmt03d(i) == IF i < 10 THEN "00" \o ToString(i)
             ELSE IF i < 100 THEN "0" \o ToString(i) ELSE ToString(i)

\* f'{group_id}_{grid}_{aug}' and f'{group_id}_{grid}_{aug}_{i:03d}'
train_id(grid, aug) == group_id \o "_" \o ToString(grid) \o "_" \o aug
train_id_ts(grid, aug, i) == train_id(grid, aug) \o "_" \o fmt03d(i)

\* is_grid_processed without its 'ts-' branch
is_grid_processed_no_ts(st, tr, grid) ==
    \E k \in 1..Len(tr) : ~startswith_ts(tr[k]) /\ train_id(grid, tr[k]) \in st

\* lines 230-254: batch_stored becomes True when any requested id has a
\* record whose train_id matches
is_grid_processed(st, tr, grid) ==
    \E k \in 1..Len(tr) :
        IF startswith_ts(tr[k])
        THEN \E i \in 0..(n_ts - 1) : train_id_ts(grid, tr[k], i) \in st
        ELSE train_id(grid, tr[k]) \in st

\* the ids of one transform, in the order the loop produces them
ids_of(grid, aug) ==
    IF startswith_ts(aug)
    THEN [i \in 1..n_ts |-> train_id_ts(grid, aug, i - 1)]
    ELSE <<train_id(grid, aug)>>

RECURSIVE requested_ids(_, _)
requested_ids(grid, tr) ==
    IF tr = <<>> THEN <<>> ELSE ids_of(grid, Head(tr)) \o requested_ids(grid, Tail(tr))

Range(s) == {s[i] : i \in DOMAIN s}

\* ------------------------------------------------------------- actions

row == df_grids[idx]

\* pbar.update(1); continue  /  the end of the loop body
next_cell ==
    /\ idx' = idx + 1
    /\ pc' = IF idx = NCells THEN "done" ELSE "clip"
    /\ grid_edges' = grids_as_edges
    /\ int_idx' = {}
    /\ todo' = <<>>

\* no image is rasterized and no land cover is read
no_path ==
    /\ edge_compare_sum = <<>>
    /\ thin_input = <<>>
    /\ lc_array = <<>>
    /\ xvars = <<>>
    /\ xvars_in = <<>>
    /\ labels_prev = <<>>

\* Part I runs no array function
no_arrays ==
    /\ no_path
    /\ apc = "none"
    /\ labels_in = <<>>
    /\ labels_array = <<>>
    /\ edges = <<>>
    /\ data_type = "none"
    /\ segments = <<>>
    /\ train_type = "none"
    /\ celly = 0
    /\ bdist_raw = <<>>
    /\ bdist = <<>>

Init ==
    /\ df_grids \in Orders
    /\ polys \in {P \in SUBSET Polygons : Cardinality(P) <= MaxPolys}
    /\ small \in {S \in SUBSET Cells : Cardinality(S) <= 1}
    /\ transforms \in TransformLists
    /\ run = 1
    /\ pc = "clip"
    /\ idx = 1
    /\ merged_grids = <<>>
    /\ df_edges = "orig"
    /\ grid_edges = grids_as_edges
    /\ int_idx = {}
    /\ todo = <<>>
    /\ store = {}
    /\ outcome = [c \in Cells |-> "pending"]
    /\ sample = [c \in Cells |-> "none"]
    /\ generated = {}
    /\ clips = <<>>
    /\ saved = <<>>
    /\ overwritten = {}
    /\ failed = "none"
    /\ prev_ok = FALSE
    /\ no_arrays

\* the repaired frame bound to another name: df_edges keeps the old frame
rebind_df_edges_other_name(old, repaired) == old

\* lines 446-448: the name df_edges after the except branch has run
rebind_df_edges(old, repaired) == repaired

\* lines 440-457: clip the edges to the current grid, repairing the topology
\* once when the clip raises; an empty clip becomes the grids with class 0
ClipCell ==
    /\ pc = "clip"
    /\ UNCHANGED array_vars
    /\ UNCHANGED <<inputs, run, idx, merged_grids, int_idx, todo, store, sample,
                   generated, saved, overwritten, failed, prev_ok>>
    /\ IF ~clip_raises(df_edges, {row})
       THEN /\ clips' = Append(clips, [cell |-> row, kind |-> "cell", df |-> df_edges, ok |-> TRUE])
            /\ df_edges' = df_edges
            /\ grid_edges' = IF clip({row}).pieces = {} THEN grids_as_edges ELSE clip({row})
            /\ pc' = "overlap"
            /\ outcome' = outcome
       ELSE LET fixed == rebind_df_edges(df_edges, "repaired")
                again == clip_raises(fixed, {row})
            IN  /\ clips' = clips \o <<[cell |-> row, kind |-> "cell", df |-> df_edges, ok |-> FALSE],
                                       [cell |-> row, kind |-> "retry", df |-> fixed, ok |-> ~again]>>
                /\ df_edges' = fixed
                /\ IF again
                   THEN /\ pc' = "error"
                        /\ outcome' = [outcome EXCEPT ![row] = "error"]
                        /\ grid_edges' = grid_edges
                   ELSE /\ pc' = "overlap"
                        /\ outcome' = outcome
                        /\ grid_edges' = IF clip({row}).pieces = {}
                                         THEN grids_as_edges ELSE clip({row})

\* what line 471 appends to merged_grids
merged_append(merged, r, ids) == Append(merged, r)

\* lines 459-483: the grids the clipped edges overlap; skip when one of them
\* is in merged_grids, else clip the edges to all of them
CheckOverlap ==
    /\ pc = "overlap"
    /\ UNCHANGED array_vars
    /\ UNCHANGED <<inputs, run, df_edges, store, sample, generated, saved,
                   overwritten, failed, prev_ok>>
    /\ LET ii == sindex_intersection(total_bounds(grid_edges))
       IN  IF Cardinality(ii) > 1
           THEN IF \E g \in ii : g \in Range(merged_grids)
                THEN /\ outcome' = [outcome EXCEPT ![row] = "merged"]
                     /\ next_cell
                     /\ UNCHANGED <<merged_grids, clips>>
                ELSE IF clip_raises(df_edges, ii)
                THEN /\ clips' = Append(clips, [cell |-> row, kind |-> "union", df |-> df_edges, ok |-> FALSE])
                     /\ pc' = "error"
                     /\ outcome' = [outcome EXCEPT ![row] = "error"]
                     /\ UNCHANGED <<idx, merged_grids, grid_edges, int_idx, todo>>
                ELSE /\ clips' = Append(clips, [cell |-> row, kind |-> "union", df |-> df_edges, ok |-> TRUE])
                     /\ grid_edges' = clip(ii)
                     /\ merged_grids' = merged_append(merged_grids, row, ii)
                     /\ int_idx' = ii
                     /\ pc' = "imagevars"
                     /\ UNCHANGED <<idx, todo, outcome>>
           ELSE /\ int_idx' = ii
                /\ pc' = "imagevars"
                /\ UNCHANGED <<idx, merged_grids, grid_edges, todo, outcome, clips>>

\* create_image_vars: labels and distances from the edges, or zeros without
create_image_vars(ge) == IF nonzero_any(ge) THEN "fields" ELSE "background"

\* lines 485-500: sample the images and rasterize the edges; skip a window
\* smaller than 5x5
CreateImageVars ==
    /\ pc = "imagevars"
    /\ UNCHANGED array_vars
    /\ UNCHANGED <<inputs, run, merged_grids, df_edges, store, clips, saved,
                   overwritten, failed, prev_ok>>
    /\ generated' = generated \cup {row}
    /\ sample' = [sample EXCEPT ![row] = create_image_vars(grid_edges)]
    /\ IF row \in small
       THEN /\ outcome' = [outcome EXCEPT ![row] = "small"]
            /\ next_cell
       ELSE /\ pc' = "stored"
            /\ UNCHANGED <<idx, grid_edges, int_idx, todo, outcome>>

\* lines 502-552: skip a grid that is already saved, else package the sample
CheckStored ==
    /\ pc = "stored"
    /\ UNCHANGED array_vars
    /\ UNCHANGED <<inputs, run, merged_grids, df_edges, store, sample, generated,
                   clips, saved, overwritten, failed, prev_ok>>
    /\ IF is_grid_processed(store, transforms, row)
       THEN /\ outcome' = [outcome EXCEPT ![row] = "stored"]
            /\ next_cell
       ELSE IF requested_ids(row, transforms) = <<>>
       THEN /\ outcome' = [outcome EXCEPT ![row] = "processed"]
            /\ next_cell
       ELSE /\ todo' = requested_ids(row, transforms)
            /\ pc' = "augment"
            /\ UNCHANGED <<idx, grid_edges, int_idx, outcome>>

\* lines 554-579: augment one variant and save it; an exception of augment or
\* of torch.save leaves the function
AugmentSave ==
    /\ pc = "augment"
    /\ UNCHANGED array_vars
    /\ UNCHANGED <<inputs, run, merged_grids, df_edges, sample, generated, clips, prev_ok>>
    /\ \E raised \in BOOLEAN :
        IF raised
        THEN /\ failed' = Head(todo)
             /\ pc' = "error"
             /\ outcome' = [outcome EXCEPT ![row] = "error"]
             /\ UNCHANGED <<idx, grid_edges, int_idx, todo, store, saved, overwritten>>
        ELSE /\ store' = store \cup {Head(todo)}
             /\ saved' = Append(saved, Head(todo))
             /\ overwritten' = IF Head(todo) \in store
                               THEN overwritten \cup {Head(todo)} ELSE overwritten
             /\ failed' = failed
             /\ IF Tail(todo) = <<>>
                THEN /\ outcome' = [outcome EXCEPT ![row] = "processed"]
                     /\ next_cell
                ELSE /\ todo' = Tail(todo)
                     /\ UNCHANGED <<pc, idx, grid_edges, int_idx, outcome>>

\* create_dataset is called again with the same arguments and the same
\* process_path
Rerun ==
    /\ pc \in {"done", "error"}
    /\ run < MaxRuns
    /\ run' = run + 1
    /\ prev_ok' = (pc = "done")
    /\ pc' = "clip"
    /\ idx' = 1
    /\ merged_grids' = <<>>
    /\ df_edges' = "orig"
    /\ grid_edges' = grids_as_edges
    /\ int_idx' = {}
    /\ todo' = <<>>
    /\ outcome' = [c \in Cells |-> "pending"]
    /\ sample' = [c \in Cells |-> "none"]
    /\ generated' = {}
    /\ clips' = <<>>
    /\ saved' = <<>>
    /\ failed' = "none"
    /\ UNCHANGED <<inputs, store, overwritten>>
    /\ UNCHANGED array_vars

Next ==
    \/ ClipCell
    \/ CheckOverlap
    \/ CreateImageVars
    \/ CheckStored
    \/ AugmentSave
    \/ Rerun

Spec == Init /\ [][Next]_vars

\* ------------------------------------------------------ claims, Part I

\* C1: in one run, every boundary polygon that spans more than one grid cell
\* gets persisted records from exactly one of the cells it intersects (first
\* run, finished without error, no undersized cell, a transform requested).
C1_OneCellPerCrossTileBoundary ==
    (run = 1 /\ pc = "done" /\ small = {} /\ transforms # <<>>) =>
        \A p \in polys :
            p.lo < p.hi =>
                Cardinality({c \in p.lo..p.hi : outcome[c] = "processed"}) = 1

\* C2: a cell whose clipped boundary set is empty, that is not undersized and
\* not already stored, is processed and gets an all-background sample,
\* whatever was processed before it.
C2_EmptyCellIsNegativeSample ==
    (run = 1 /\ pc = "done" /\ transforms # <<>>) =>
        \A c \in Cells :
            (candidates({c}) = {} /\ c \notin small) =>
                outcome[c] = "processed" /\ sample[c] = "background"

\* C3: a cell is skipped as already processed only if every requested train
\* id has a record.
C3_SkipOnlyIfAllStored ==
    \A c \in Cells :
        outcome[c] = "stored" => Range(requested_ids(c, transforms)) \subseteq store

\* C4: no save is issued for a train id whose record already exists.
C4_WriteOnce == overwritten = {}

\* C5: a run that follows a run which ended without error, with the same
\* inputs and the same store, saves nothing.
C5_RerunWritesNothing == (run >= 2 /\ prev_ok) => saved = <<>>

\* C5 witness: a finished second run after a clean first run in which a cell
\* with records was met again.
C5_Witness ==
    /\ run = 2 /\ prev_ok /\ pc = "done"
    /\ \E c \in Cells : outcome[c] = "stored" /\ is_grid_processed(store, transforms, c)
    /\ \E k \in 1..Len(transforms) : startswith_ts(transforms[k])

\* C6: a failed clip to a cell is followed by one repair and one retry on the
\* repaired frame; a failed retry ends the run with no later cell touched; a
\* successful retry leaves df_edges repaired, and every later clip of the run
\* uses the repaired frame.
C6_TopologyRepairProtocol ==
    /\ \A i \in DOMAIN clips :
        /\ (clips[i].kind = "cell" /\ ~clips[i].ok) =>
               /\ i + 1 \in DOMAIN clips
               /\ clips[i + 1].kind = "retry"
               /\ clips[i + 1].cell = clips[i].cell
               /\ clips[i + 1].df = "repaired"
        /\ clips[i].kind = "retry" =>
               /\ i > 1
               /\ clips[i - 1].kind = "cell"
               /\ ~clips[i - 1].ok
               /\ clips[i - 1].cell = clips[i].cell
        /\ (clips[i].kind = "retry" /\ ~clips[i].ok) =>
               /\ i = Len(clips)
               /\ pc = "error"
               /\ clips[i].cell = df_grids[idx]
               /\ \A j \in (idx + 1)..NCells : outcome[df_grids[j]] = "pending"
        /\ (clips[i].kind = "retry" /\ clips[i].ok) =>
               /\ df_edges = "repaired"
               /\ \A j \in DOMAIN clips : j > i => clips[j].df = "repaired"
    /\ Cardinality({i \in DOMAIN clips : clips[i].kind = "retry"})
           = Cardinality({i \in DOMAIN clips : clips[i].kind = "cell" /\ ~clips[i].ok})

\* C6 witness: a retry succeeded and a later cell was clipped.
C6_Witness ==
    \E i, j \in DOMAIN clips :
        /\ i < j
        /\ clips[i].kind = "retry" /\ clips[i].ok
        /\ clips[j].cell # clips[i].cell

\* C7: when augmenting or saving one variant of a cell raises, every other
\* requested variant of the cell is still persisted.
C7_VariantsIndependent ==
    (pc = "error" /\ failed # "none") =>
        (Range(requested_ids(df_grids[idx], transforms)) \ {failed}) \subseteq store

\* C10: a cell skipped because its records exist had no generation work:
\* create_image_vars did not run for it.
C10_StoredCheckBeforeGeneration ==
    \A c \in Cells : outcome[c] = "stored" => c \notin generated

\* C11: once a cell whose clipped edges meet more than one grid has passed
\* the merged check, every grid they meet is in merged_grids; and within a
\* run merged_grids only grows.
C11_AllIntersectingMerged ==
    /\ [](( pc \in {"imagevars", "stored", "augment"} /\ Cardinality(int_idx) > 1 )
            => int_idx \subseteq Range(merged_grids))
    /\ [][run' = run => Range(merged_grids) \subseteq Range(merged_grids')]_vars

(***************************************************************************)
(* Part II: the array functions.  An array is a function from the pixels   *)
(* of a Rows x Cols raster to its values; each specification of this part  *)
(* draws the arguments of one function from bounded sets and applies it.   *)
(***************************************************************************)
Rows == 2
Cols == 3
MaxClass == 2
MaxCellY == 2

CROP_CLASS == 1
EDGE_CLASS == 2

Pix == (1..Rows) \X (1..Cols)

\* the position of a pixel in raster order
raster(p) == (p[1] - 1) * Cols + p[2]

\* two pixels are direct neighbours
adjacent(p, q) ==
    \/ p[1] = q[1] /\ (p[2] = q[2] + 1 \/ q[2] = p[2] + 1)
    \/ p[2] = q[2] /\ (p[1] = q[1] + 1 \/ q[1] = p[1] + 1)

\* the direct neighbours of a pixel
Nbr4(p) == {q \in Pix : adjacent(p, q)}

\* the pixels of M connected to S through direct neighbours
RECURSIVE grow(_, _)
grow(S, M) ==
    LET T == S \cup {q \in M \ S : \E p \in S : adjacent(p, q)}
    IN  IF T = S THEN S ELSE grow(T, M)

\* the first pixel, in raster order, of a set of pixels
first_raster(C) == Min({raster(q) : q \in C})

\* the connected components of the pixels M
components(M) == {grow({p}, M) : p \in M}

\* number the components cs from 1 in raster order; 0 outside them
number_components(cs) ==
    [p \in Pix |->
        IF \E C \in cs : p \in C
        THEN Cardinality({D \in cs : first_raster(D) <= first_raster(CHOOSE C \in cs : p \in C)})
        ELSE 0]

\* scipy.ndimage label with its default structure: the connected components
\* of the nonzero pixels M, numbered from 1 in raster order; 0 elsewhere
nd_label(M) == number_components(components(M))

\* scipy.stats.mode(...).mode[0]: the most frequent value, the smallest on ties
stats_mode(a, S) ==
    LET vals == {a[p] : p \in S}
        count(v) == Cardinality({p \in S : a[p] = v})
    IN  Min({v \in vals : \A w \in vals : count(w) <= count(v)})

\* the loop of make_crops_uniform without its last else branch: a segment
\* with a crop minority keeps its labels
uniform_labels_no_else(labels, segs, dtype) ==
    LET members(lab) == {p \in Pix : segs[p] = lab}
        crop_total(lab) == Cardinality({p \in members(lab) : labels[p] > 0})
        value(p) ==
            IF crop_total(segs[p]) = 0 THEN 0
            ELSE IF 2 * crop_total(segs[p]) > Cardinality(members(segs[p]))
            THEN IF dtype = "boundaries" THEN CROP_CLASS
                 ELSE stats_mode(labels, members(segs[p]))
            ELSE labels[p]
    IN  [p \in Pix |-> value(p)]

\* lines 146-165, the loop of make_crops_uniform over index =
\* np.unique(segments): every segment, segment 0 (the pixels outside the
\* labelled mask) included, gets one value
uniform_labels(labels, segs, dtype) ==
    LET members(lab) == {p \in Pix : segs[p] = lab}
        crop_total(lab) == Cardinality({p \in members(lab) : labels[p] > 0})
        value(lab) ==
            IF crop_total(lab) = 0 THEN 0
            ELSE IF 2 * crop_total(lab) > Cardinality(members(lab))
            THEN IF dtype = "boundaries" THEN CROP_CLASS
                 ELSE stats_mode(labels, members(lab))
            ELSE 0
    IN  [p \in Pix |-> value(segs[p])]

\* Part II runs no loop over the grids
no_grids ==
    /\ df_grids = <<>>
    /\ polys = {}
    /\ small = {}
    /\ transforms = <<>>
    /\ run = 0
    /\ pc = "none"
    /\ idx = 0
    /\ merged_grids = <<>>
    /\ df_edges = "orig"
    /\ grid_edges = grids_as_edges
    /\ int_idx = {}
    /\ todo = <<>>
    /\ store = {}
    /\ outcome = <<>>
    /\ sample = <<>>
    /\ generated = {}
    /\ clips = <<>>
    /\ saved = <<>>
    /\ overwritten = {}
    /\ failed = "none"
    /\ prev_ok = FALSE

InitUniform ==
    /\ no_grids
    /\ no_path
    /\ apc = "args"
    /\ labels_in \in [Pix -> 0..MaxClass]
    /\ labels_array = labels_in
    /\ edges \in [Pix -> 0..1]
    /\ data_type \in {"boundaries", "classes"}
    /\ segments = <<>>
    /\ train_type = "none"
    /\ celly = 0
    /\ bdist_raw = <<>>
    /\ bdist = <<>>

\* lines 140-167: make_crops_uniform(labels_array, edges, data_type)
MakeCropsUniform ==
    /\ apc = "args"
    /\ data_type # "none"
    /\ apc' = "make_crops_uniform"
    /\ segments' = nd_label({p \in Pix : edges[p] = 0})
    \* an integer array of the image shape
    /\ segments' \in [Pix -> 0..Cardinality(Pix)]
    /\ labels_array' = uniform_labels(labels_array, segments', data_type)
    /\ UNCHANGED <<labels_in, edges, data_type, train_type, celly, bdist_raw, bdist, path_vars>>
    /\ UNCHANGED grid_vars

NextUniform == MakeCropsUniform

SpecUniform == InitUniform /\ [][NextUniform]_vars

\* C8: in the label array make_crops_uniform returns, every connected region
\* of non-edge pixels (edges == 0, connected through direct neighbours)
\* carries one label value: two neighbouring non-edge pixels never differ.
C8_SegmentUniformity ==
    apc = "make_crops_uniform" =>
        \A p \in Pix : \A q \in Nbr4(p) :
            (edges[p] = 0 /\ edges[q] = 0) => labels_array[p] = labels_array[q]

\* C8 witness: a region that came in with two label values and a crop
\* minority, and one that came in mixed and left as a crop class.
C8_Witness ==
    /\ apc = "make_crops_uniform"
    /\ data_type # "boundaries"
    /\ \E p \in Pix : \E q \in Nbr4(p) :
        /\ edges[p] = 0 /\ edges[q] = 0
        /\ labels_in[p] = 0 /\ labels_in[q] > 0
        /\ labels_array[p] = 0
    /\ \E p \in Pix : \E q \in Nbr4(p) :
        /\ edges[p] = 0 /\ edges[q] = 0
        /\ labels_in[p] # labels_in[q]
        /\ labels_array[p] > 0

\* C12: make_crops_uniform relabels every component by its crop fraction:
\* no crop pixel gives background; a crop majority gives CROP_CLASS in
\* 'boundaries' mode and otherwise the most frequent of the component's
\* nonzero labels (the lowest on ties), hence a nonzero label; a crop
\* minority gives background.
C12_MajorityRule ==
    apc = "make_crops_uniform" =>
        \A lab \in {segments[p] : p \in Pix} \ {0} :
            LET members == {p \in Pix : segments[p] = lab}
                crop == {p \in members : labels_in[p] > 0}
                count(v) == Cardinality({p \in crop : labels_in[p] = v})
                best == {v \in {labels_in[p] : p \in crop} :
                            \A w \in {labels_in[p] : p \in crop} : count(w) <= count(v)}
            IN  \A p \in members :
                    labels_array[p] =
                        IF crop = {} THEN 0
                        ELSE IF 2 * Cardinality(crop) > Cardinality(members)
                        THEN IF data_type = "boundaries" THEN CROP_CLASS ELSE Min(best)
                        ELSE 0

\* ----------------------------------------- normalize_boundary_distances

\* A float is a record: a rational n/d (d > 0), a NaN or an infinity.
Num(n, d) == [k |-> "num", n |-> n, d |-> d]
NaN == [k |-> "nan", n |-> 0, d |-> 1]
PosInf == [k |-> "inf", n |-> 1, d |-> 1]

\* distances are held in units of 1/DistScale pixel
DistScale == 10000

\* cv2.DIST_L2 with a 3x3 mask: a step to a direct neighbour costs 0.955, a
\* diagonal step 1.3693
ChamferA == 9550
ChamferB == 13693

\* what cv2.distanceTransform leaves in an image without a zero pixel
\* (about 8192 pixels)
DistMax == 81920000

\* np.uint8 of a small integer
uint8(v) == v % 256

\* train_type.lower()
lower(t) ==
    CASE t = "Polygon" -> "polygon"
      [] t = "MultiPolygon" -> "multipolygon"
      [] t = "LineString" -> "linestring"

Abs(v) == IF v < 0 THEN -v ELSE v

\* the 3x3 chamfer distance between two pixels
chamfer(p, q) ==
    LET dr == Abs(p[1] - q[1])
        dc == Abs(p[2] - q[2])
    IN  IF dr < dc THEN ChamferA * (dc - dr) + ChamferB * dr
        ELSE ChamferA * (dr - dc) + ChamferB * dc

\* lines 262-265: one pixel of the mask of create_boundary_distances
boundary_mask(labels, ttype, p) ==
    IF lower(ttype) = "polygon" THEN uint8(labels[p]) ELSE uint8(1 - labels[p])

\* cv2.distanceTransform(mask, cv2.DIST_L2, 3) at pixel p: the distance of a
\* nonzero pixel to the nearest zero pixel of the image
distanceTransform(labels, ttype, p) ==
    LET zeros == {z \in Pix : boundary_mask(labels, ttype, z) = 0}
    IN  IF p \in zeros THEN 0
        ELSE IF zeros = {} THEN DistMax
        ELSE Min({chamfer(p, z) : z \in zeros})

\* line 267: the segments of create_boundary_distances
boundary_segments(labels, ttype) ==
    nd_label({p \in Pix : boundary_mask(labels, ttype, p) # 0})

\* line 269: the distances of create_boundary_distances, times the cell size
boundary_bdist(labels, ttype, cy) ==
    [p \in Pix |-> Num(distanceTransform(labels, ttype, p) * cy, DistScale)]

\* float division x / m of two non-negative floats
fdiv(x, m) ==
    IF m.n = 0 THEN (IF x.n = 0 THEN NaN ELSE PosInf)
    ELSE IF x.d = m.d THEN Num(x.n, m.n)
    ELSE Num(x.n * m.d, x.d * m.n)

\* x <= y for two rationals
fleq(x, y) == IF x.d = y.d THEN x.n <= y.n ELSE x.n * y.d <= y.n * x.d

\* ndarray.clip(0, 1) of one value: a NaN stays a NaN
fclip01(v) ==
    IF v.k = "nan" THEN v
    ELSE IF v.k = "inf" THEN Num(1, 1)
    ELSE IF v.n < 0 THEN Num(0, 1)
    ELSE IF v.n > v.d THEN Num(1, 1)
    ELSE v

\* np.nan_to_num that leaves every value as it is
nan_to_num_nothing(v) == v

\* np.nan_to_num(..., nan=1.0, neginf=1.0, posinf=1.0) of one value
nan_to_num(v) == IF v.k \in {"nan", "inf"} THEN Num(1, 1) ELSE v

\* line 286, p.bbox: max_row - min_row <= 1 or max_col - min_col <= 1, the
\* maxima being exclusive bounds
thin_bbox(segs, lab) ==
    LET rows == {q[1] : q \in {r \in Pix : segs[r] = lab}}
        cols == {q[2] : q \in {r \in Pix : segs[r] = lab}}
    IN  (Max(rows) + 1) - Min(rows) <= 1 \/ (Max(cols) + 1) - Min(cols) <= 1

\* line 297, p.max_intensity: the largest distance inside the segment
max_intensity(segs, raw, lab) ==
    CHOOSE m \in {raw[q] : q \in {r \in Pix : segs[r] = lab}} :
        \A q \in Pix : segs[q] = lab => fleq(raw[q], m)

\* lines 283-299 at pixel p: every segment normalized by its own maximum, a
\* segment whose bounding box is one pixel high or wide set to 0.1
normalize_segments(segs, raw, p) ==
    IF segs[p] = 0 THEN raw[p]
    ELSE IF thin_bbox(segs, segs[p]) THEN Num(1, 10)
    ELSE fdiv(raw[p], max_intensity(segs, raw, segs[p]))

\* line 300: clip to [0, 1], then replace NaN and infinities
clip_and_nan_to_num(v) == nan_to_num(fclip01(v))

InitDistances ==
    /\ no_grids
    /\ no_path
    /\ apc = "args"
    /\ labels_in \in [Pix -> 0..1]
    /\ labels_array = labels_in
    /\ edges = <<>>
    /\ data_type = "none"
    /\ segments = <<>>
    /\ train_type \in {"Polygon", "MultiPolygon", "LineString"}
    /\ celly \in 0..MaxCellY
    /\ bdist_raw = <<>>
    /\ bdist = <<>>

\* lines 274-302: normalize_boundary_distances(labels_array, train_type, src_ts)
NormalizeBoundaryDistances ==
    /\ apc = "args"
    /\ train_type # "none"
    /\ apc' = "normalize_boundary_distances"
    /\ segments' = boundary_segments(labels_array, train_type)
    /\ bdist_raw' = boundary_bdist(labels_array, train_type, celly)
    \* both are arrays of the image shape
    /\ segments' \in [Pix -> 0..Cardinality(Pix)]
    /\ bdist_raw' \in [Pix -> [k : {"num"}, n : Nat, d : {DistScale}]]
    /\ bdist' = [p \in Pix |-> clip_and_nan_to_num(normalize_segments(segments', bdist_raw', p))]
    /\ UNCHANGED <<labels_in, labels_array, edges, data_type, train_type, celly, path_vars>>
    /\ UNCHANGED grid_vars

NextDistances == NormalizeBoundaryDistances

SpecDistances == InitDistances /\ [][NextDistances]_vars

\* C9: every value of the field normalize_boundary_distances returns is a
\* number in [0,1]: no NaN, no infinity, nothing below 0 or above 1.
C9_DistancesInUnitInterval ==
    apc = "normalize_boundary_distances" =>
        \A p \in Pix :
            /\ bdist[p].k = "num"
            /\ bdist[p].d > 0
            /\ 0 <= bdist[p].n
            /\ bdist[p].n <= bdist[p].d

\* C9 witness: a cell size of 0, so that a segment's maximum distance is 0
\* and its quotients are 0/0, next to a one-pixel-wide segment.
C9_Witness ==
    /\ apc = "normalize_boundary_distances"
    /\ celly = 0
    /\ lower(train_type) = "polygon"
    /\ \E p \in Pix : labels_in[p] = 1 /\ bdist[p] = Num(1, 1)
    /\ \E p \in Pix : labels_in[p] = 1 /\ bdist[p] = Num(1, 10)

\* ------------------------------------------------------- focal_compare

\* np.pad(arr, pad_width=((1, 1), (1, 1)), mode='edge') read at row r and
\* column c of the unpadded array: outside it, the nearest pixel's value
arr_pad(arr, r, c) ==
    arr[<<IF r < 1 THEN 1 ELSE IF r > Rows THEN Rows ELSE r,
          IF c < 1 THEN 1 ELSE IF c > Cols THEN Cols ELSE c>>]

\* roll(arr_pad, shift, axis) at pixel p: np.roll moves the values by the
\* shift, so the result holds at p the value shift[1] rows up and shift[2]
\* columns left of it
roll(arr, shift, p) == arr_pad(arr, p[1] - shift[1], p[2] - shift[2])

\* the shifts of the four direct and the four corner neighbours
Shifts == {<<1, 0>>, <<-1, 0>>, <<0, 1>>, <<0, -1>>, <<1, 1>>, <<1, -1>>, <<-1, 1>>, <<-1, -1>>}

\* focal_compare without out[0] among the summed layers
focal_compare_no_self(arr, p) ==
    Cardinality({sh \in Shifts : roll(arr, sh, p) = arr[p]})
        * (IF arr[p] > 0 THEN 1 ELSE 0)

\* lines 59-75 at pixel p: out[0] is the foreground indicator, the eight
\* other layers tell whether a neighbour equals the pixel; their sum, times
\* out[0]
focal_compare(arr, p) ==
    ((IF arr[p] > 0 THEN 1 ELSE 0) + Cardinality({sh \in Shifts : roll(arr, sh, p) = arr[p]}))
        * (IF arr[p] > 0 THEN 1 ELSE 0)

\* line 358: np.uint8((edge_compare_sum > 0) & (edge_compare_sum < 8))
edge_candidates(ecs) == [p \in Pix |-> IF ecs[p] > 0 /\ ecs[p] < 8 THEN 1 ELSE 0]

\* the pixels a polygon of grid_edges covers: a block of rows r1..r2 and
\* columns c1..c2, or none (r1 > r2) when no pixel centre lies inside
Blocks ==
    {b \in [r1 : 1..Rows, r2 : 0..Rows, c1 : 1..Cols, c2 : 1..Cols] :
        \/ b.r1 <= b.r2 /\ b.c1 <= b.c2
        \/ b.r1 = 1 /\ b.r2 = 0 /\ b.c1 = 1 /\ b.c2 = 1}

\* polygon_to_array(grid_edges, col='class'): 0 outside the polygons, inside
\* a polygon its class, the classes being 1, 2, ... (line 476)
polygon_to_array(blocks) ==
    [p \in Pix |->
        LET over == {k \in DOMAIN blocks :
                        /\ blocks[k].r1 <= p[1] /\ p[1] <= blocks[k].r2
                        /\ blocks[k].c1 <= p[2] /\ p[2] <= blocks[k].c2}
        IN  IF over = {} THEN 0 ELSE Max(over)]

\* labels_array is the rasterized grid_edges
InitImageVars ==
    /\ no_grids
    /\ apc = "args"
    /\ labels_in \in {polygon_to_array(blocks) : blocks \in [1..MaxClass -> Blocks]}
    /\ labels_array = labels_in
    /\ edges = <<>>
    /\ data_type = "none"
    /\ segments = <<>>
    /\ train_type = "none"
    /\ celly = 0
    /\ bdist_raw = <<>>
    /\ bdist = <<>>
    /\ edge_compare_sum = <<>>
    /\ thin_input = <<>>
    /\ lc_array = <<>>
    /\ xvars = <<>>
    /\ xvars_in = <<>>
    /\ labels_prev = <<>>

\* lines 349-361: the focal comparison and the mask handed to sk_thin
FocalCompare ==
    /\ apc = "args"
    /\ apc' = "focal_compare"
    /\ edge_compare_sum' = [p \in Pix |-> focal_compare(labels_array, p)]
    /\ thin_input' = edge_candidates(edge_compare_sum')
    /\ UNCHANGED <<labels_in, labels_array, edges, data_type, segments, train_type, celly,
                   bdist_raw, bdist, lc_array, xvars, xvars_in, labels_prev>>
    /\ UNCHANGED grid_vars

NextImageVars == FocalCompare

SpecImageVars == InitImageVars /\ [][NextImageVars]_vars

NBands == 2

\* the values of an image band after clip(0, 1): none or full reflectance
BandValues == {0, 1}

\* the crop codes of the land-cover table, in the order its items come
CDL_CROP_LABELS_r == <<1, 5>>

\* the land-cover values: the crop codes and 0, which is no crop
LcValues == {0} \cup Range(CDL_CROP_LABELS_r)

\* lines 368-374, the last step of create_image_vars on the labels: the
\* focal sum of the crop indicator over the pixel and its 8 neighbours
focal_stat_sum(arr, p) ==
    (IF arr[p] = CROP_CLASS THEN 1 ELSE 0)
        + Cardinality({sh \in Shifts : roll(arr, sh, p) = CROP_CLASS})

\* lines 369-373: fewer than 2 gives background, fewer than 4 gives edge
fragment_cleanup(arr) ==
    [p \in Pix |->
        IF focal_stat_sum(arr, p) < 2 THEN 0
        ELSE IF focal_stat_sum(arr, p) < 4 THEN EDGE_CLASS
        ELSE arr[p]]

\* lines 207-210: the top row becomes the indicator of 1 in the second row
close_top(arr) ==
    [p \in Pix |-> IF p[1] = 1 THEN (IF arr[<<2, p[2]>>] = 1 THEN 1 ELSE 0) ELSE arr[p]]

\* lines 212-215: the bottom row becomes its own indicator of 1
close_bottom(arr) ==
    [p \in Pix |-> IF p[1] = Rows THEN (IF arr[p] = 1 THEN 1 ELSE 0) ELSE arr[p]]

\* lines 217-220: the left column becomes its own indicator of 1
close_left(arr) ==
    [p \in Pix |-> IF p[2] = 1 THEN (IF arr[p] = 1 THEN 1 ELSE 0) ELSE arr[p]]

\* lines 222-225: the right column becomes its own indicator of 1
close_right(arr) ==
    [p \in Pix |-> IF p[2] = Cols THEN (IF arr[p] = 1 THEN 1 ELSE 0) ELSE arr[p]]

\* lines 203-227
close_edge_ends(arr) == close_right(close_left(close_bottom(close_top(arr))))

\* lines 186-197, the loop over the crop codes: recoded_labels and
\* crop_counter after the codes left
RECURSIVE recode_loop(_, _, _, _, _, _)
recode_loop(codes, recoded, crop_counter, lc, edg, dtype) ==
    IF codes = <<>> THEN recoded
    ELSE LET lc_value == Head(codes)
             hit == {p \in Pix : lc[p] = lc_value /\ edg[p] = 0}
             next == [p \in Pix |->
                        IF p \in hit
                        THEN (IF dtype = "boundaries" THEN 1 ELSE crop_counter)
                        ELSE recoded[p]]
         IN  recode_loop(Tail(codes), next,
                         IF dtype # "boundaries" /\ \E p \in Pix : next[p] = crop_counter
                         THEN crop_counter + 1 ELSE crop_counter,
                         lc, edg, dtype)

\* lines 170-200 with lc_is_cdl: edges is labels_array.copy(), and a pixel
\* is recoded where edges == 0
recode_crop_labels(arr, lc, dtype) ==
    recode_loop(CDL_CROP_LABELS_r, [p \in Pix |-> 0], 1, lc, arr, dtype)

\* lines 125-137 at pixel p: the segments regionprops lists are those with
\* a label above 0
check_slivers(arr, edg, segs, p) ==
    IF edg[p] = 1 THEN EDGE_CLASS
    ELSE IF segs[p] > 0 /\ thin_bbox(segs, segs[p]) THEN 0
    ELSE arr[p]

\* lines 36-38: xvars[-1] times the indicator of a label above 0
mask_last_band(xv, arr) ==
    [xv EXCEPT ![Len(xv)] = [p \in Pix |-> IF arr[p] > 0 THEN xv[Len(xv)][p] ELSE 0]]

\* lines 40-46 at pixel p: four times the mean of the masked band over the
\* four direct neighbours, the band edge-padded
dist_mean4(band, p) ==
    roll(band, <<0, 1>>, p) + roll(band, <<0, -1>>, p)
        + roll(band, <<1, 0>>, p) + roll(band, <<-1, 0>>, p)

\* line 47: labels_array * np.uint8(dist_mean > 0)
remove_noncrop(band, arr) ==
    [p \in Pix |-> IF dist_mean4(band, p) > 0 THEN arr[p] ELSE 0]

\* what create_image_vars returned (line 486): the stack of bands, the
\* labels after the fragment clean-up and their normalized distances; the
\* land-cover raster read over the same window (line 532)
InitLandCover ==
    /\ no_grids
    /\ apc = "create_image_vars"
    /\ labels_in \in {fragment_cleanup(a) : a \in [Pix -> 0..EDGE_CLASS]}
    /\ labels_array = labels_in
    /\ labels_prev = labels_in
    /\ edges = <<>>
    /\ data_type \in {"boundaries", "classes"}
    /\ train_type \in {"Polygon", "LineString"}
    /\ celly = 1
    /\ segments = boundary_segments([p \in Pix |-> IF labels_in[p] = 1 THEN 1 ELSE 0], train_type)
    /\ bdist_raw = boundary_bdist([p \in Pix |-> IF labels_in[p] = 1 THEN 1 ELSE 0], train_type, celly)
    /\ bdist = [p \in Pix |-> clip_and_nan_to_num(normalize_segments(segments, bdist_raw, p))]
    /\ xvars \in [1..NBands -> {[p \in Pix |-> v] : v \in BandValues}]
    /\ xvars_in = xvars
    /\ lc_array \in {[p \in Pix |-> col[p[2]]] : col \in [1..Cols -> LcValues]}
    /\ edge_compare_sum = <<>>
    /\ thin_input = <<>>

\* line 535: labels_array = close_edge_ends(labels_array)
CloseEdgeEnds ==
    /\ apc = "create_image_vars"
    /\ apc' = "close_edge_ends"
    /\ labels_prev' = labels_array
    /\ labels_array' = close_edge_ends(labels_array)
    /\ UNCHANGED <<labels_in, edges, data_type, segments, train_type, celly, bdist_raw, bdist,
                   edge_compare_sum, thin_input, lc_array, xvars, xvars_in>>
    /\ UNCHANGED grid_vars

\* lines 537-539: labels_array, edges = recode_crop_labels(...)
RecodeCropLabels ==
    /\ apc = "close_edge_ends"
    /\ apc' = "recode_crop_labels"
    /\ labels_prev' = labels_array
    /\ edges' = labels_array
    /\ labels_array' = recode_crop_labels(labels_array, lc_array, data_type)
    /\ UNCHANGED <<labels_in, data_type, segments, train_type, celly, bdist_raw, bdist,
                   edge_compare_sum, thin_input, lc_array, xvars, xvars_in>>
    /\ UNCHANGED grid_vars

\* line 541: labels_array, segments = make_crops_uniform(labels_array, edges, data_type)
MakeCropsUniformCall ==
    /\ apc = "recode_crop_labels"
    /\ apc' = "make_crops_uniform"
    /\ labels_prev' = labels_array
    /\ segments' = nd_label({p \in Pix : edges[p] = 0})
    \* an integer array of the image shape
    /\ segments' \in [Pix -> 0..Cardinality(Pix)]
    /\ labels_array' = uniform_labels(labels_array, segments', data_type)
    /\ UNCHANGED <<labels_in, edges, data_type, train_type, celly, bdist_raw, bdist,
                   edge_compare_sum, thin_input, lc_array, xvars, xvars_in>>
    /\ UNCHANGED grid_vars

\* line 543: labels_array, props = check_slivers(labels_array, edges, segments)
CheckSlivers ==
    /\ apc = "make_crops_uniform"
    /\ apc' = "check_slivers"
    /\ labels_prev' = labels_array
    /\ labels_array' = [p \in Pix |-> check_slivers(labels_array, edges, segments, p)]
    /\ UNCHANGED <<labels_in, edges, data_type, segments, train_type, celly, bdist_raw, bdist,
                   edge_compare_sum, thin_input, lc_array, xvars, xvars_in>>
    /\ UNCHANGED grid_vars

\* lines 545-552: xvars, labels_array = remove_noncrop(xvars, labels_array),
\* then LabeledData(x=xvars, y=labels_array, bdist=bdist, segments=segments)
RemoveNoncrop ==
    /\ apc = "check_slivers"
    /\ apc' = "remove_noncrop"
    /\ labels_prev' = labels_array
    /\ xvars' = mask_last_band(xvars, labels_array)
    /\ labels_array' = remove_noncrop(xvars'[Len(xvars)], labels_array)
    /\ UNCHANGED <<labels_in, edges, data_type, segments, train_type, celly, bdist_raw, bdist,
                   edge_compare_sum, thin_input, lc_array, xvars_in>>
    /\ UNCHANGED grid_vars

NextLandCover ==
    \/ CloseEdgeEnds
    \/ RecodeCropLabels
    \/ MakeCropsUniformCall
    \/ CheckSlivers
    \/ RemoveNoncrop

SpecLandCover == InitLandCover /\ [][NextLandCover]_vars

\* C13: check_slivers in the land-cover path sets to background every
\* segment whose bounding box is at most one pixel high or wide, then sets
\* the edge class on exactly the pixels that were edge class in the label
\* array before recoding (the array recode_crop_labels copied into edges);
\* every other pixel keeps the label it had.
C13_SliversAndEdges ==
    apc = "check_slivers" =>
        \A p \in Pix :
            labels_array[p] =
                IF edges[p] = EDGE_CLASS THEN EDGE_CLASS
                ELSE IF segments[p] > 0 /\ thin_bbox(segments, segments[p]) THEN 0
                ELSE labels_prev[p]

\* C14: after remove_noncrop the packaged boundary distances are 0 at every
\* pixel whose label (as passed to remove_noncrop) is background, and a pixel
\* that keeps the edge class has a direct neighbour with a nonzero distance.
C14_NoncropDistancesMasked ==
    apc = "remove_noncrop" =>
        \A p \in Pix :
            /\ labels_prev[p] = 0 => bdist[p].n = 0
            /\ (labels_prev[p] = EDGE_CLASS /\ labels_array[p] = EDGE_CLASS)
                    => \E q \in Nbr4(p) : bdist[q].n # 0

\* C16: in multi-class mode recode_crop_labels gives a nonzero class id to
\* every pixel whose land-cover value is a crop code and whose label before
\* recoding is not the edge class; pixels with the same land-cover code get
\* the same id; and the ids in use are 1..K without a gap.
C16_RecodeMultiClass ==
    (apc = "recode_crop_labels" /\ data_type = "classes") =>
        LET crop == {p \in Pix : lc_array[p] \in Range(CDL_CROP_LABELS_r) /\ edges[p] # EDGE_CLASS}
            ids == {labels_array[p] : p \in Pix} \ {0}
        IN  /\ \A p \in crop : labels_array[p] > 0
            /\ \A p, q \in crop : lc_array[p] = lc_array[q] => labels_array[p] = labels_array[q]
            /\ ids = 1..Cardinality(ids)

\* C17: the label post-processing of the land-cover path changes no band of
\* the image stack: the packaged stack is the one create_image_vars returned.
C17_ImageStackUnchanged ==
    /\ [][xvars' = xvars]_vars
    /\ [](apc = "remove_noncrop" => xvars = xvars_in)

====
